---- MODULE Spec2Model ----
(***************************************************************************)
(* A model of mozc's user POS dictionary engine (dictionary/user_pos.h).    *)
(*                                                                         *)
(* The token array is a byte buffer of 8-byte little-endian records that   *)
(* UserPOS::iterator walks with raw pointer arithmetic; the string array   *)
(* is a sorted, deduplicated table of strings.  Strings are sequences of   *)
(* character codes, bytes are 0..255, pointers are integer addresses.      *)
(***************************************************************************)
EXTENDS Integers, Sequences, FiniteSets, TLC

VARIABLES
    manager,            \* the data manager's two buffers: [tokens, strings]
    status,             \* "none" | "ready" | "failed": the engine's construction
    token_array_data_,  \* UserPOS::token_array_data_: the bytes of the token array
    string_array_,      \* UserPOS::string_array_: the string table
    out,                \* per caller: the caller-supplied std::vector<Token>
    call,               \* per caller: the GetTokens call in progress
    ret,                \* the last finished query and what it returned
    it,                 \* an iterator under test (its ptr_)
    it_ret              \* the last iterator operation and what it returned

vars == <<manager, status, token_array_data_, string_array_, out, call, ret,
          it, it_ret>>

(***************************************************************************)
(* Bounds of the model.                                                    *)
(***************************************************************************)
MaxStrings == 3     \* most strings in a string table
MaxRecords == 3     \* most records in a token array
MaxOut == 1         \* GetTokens is called while the output holds at most this many
MaxSteps == 4       \* most records an iterator under test is moved by

(***************************************************************************)
(* Strings and their byte-wise order.                                      *)
(***************************************************************************)
Min(a, b) == IF a <= b THEN a ELSE b

\* The strings the inputs are drawn from: "", "a", "ab", "b", "ba".
Universe == {<<>>, <<1>>, <<1, 2>>, <<2>>, <<2, 1>>}

\* a < b in the order of std::string (byte-wise lexicographic).
StrLess(a, b) ==
    \E k \in 0..Min(Len(a), Len(b)) :
        /\ \A j \in 1..k : a[j] = b[j]
        /\ \/ k = Len(a) /\ k < Len(b)
           \/ k < Len(a) /\ k < Len(b) /\ a[k + 1] < b[k + 1]

IsPrefix(p, s) == Len(p) <= Len(s) /\ \A j \in 1..Len(p) : s[j] = p[j]

\* The ascending sequence of the strings of S (the generator's string array).
RECURSIVE SortStrings(_)
SortStrings(S) ==
    IF S = {} THEN <<>>
    ELSE LET m == CHOOSE x \in S : \A y \in S \ {x} : StrLess(x, y)
         IN  <<m>> \o SortStrings(S \ {m})

(***************************************************************************)
(* Memory: the token array's bytes live at addresses data() ..             *)
(***************************************************************************)
\* token_array_data_.data(): where the data manager's buffer lies.
DataAddr == 4096

\* Width of size_t and ptrdiff_t in bits (an ILP32 build; TLC's integers do
\* not hold the 2^61 an LP64 build yields at the same places).
SizeBits == 32

RECURSIVE Pow2(_)
Pow2(n) == IF n = 0 THEN 1 ELSE 2 * Pow2(n - 1)

\* The byte at address p of the token array's buffer (no query of a ready
\* engine reads outside it).
ByteAt(p) == token_array_data_[p - DataAddr + 1]

\* *reinterpret_cast<const uint16 *>(p) on a little-endian machine.
Load16(p) == ByteAt(p) + 256 * ByteAt(p + 1)

\* The 16-bit field at byte offset o of a buffer not yet owned by an engine.
Field16(bytes, o) == bytes[o + 1] + 256 * bytes[o + 2]

(***************************************************************************)
(* UserPOS::iterator: a pointer into the token array, moved in whole       *)
(* records.  An iterator is its ptr_.                                      *)
(***************************************************************************)
kTokenByteLength == 8

\* (mutant) pos_index() reads the second field of the record.
PosIndexAtValueOffset(ptr) == Load16(ptr + 2)

pos_index(ptr) == Load16(ptr)
value_suffix_index(ptr) == Load16(ptr + 2)

\* (mutant) key_suffix_index() reads at the offset of value_suffix_index().
KeySuffixAtValueOffset(ptr) == Load16(ptr + 2)

key_suffix_index(ptr) == Load16(ptr + 4)
conjugation_id(ptr) == Load16(ptr + 6)

\* (mutant) operator* yields the value suffix index.
DerefValueSuffix(ptr) == value_suffix_index(ptr)

\* operator*
Deref(ptr) == pos_index(ptr)

\* n * kTokenByteLength is a size_t product; added to (subtracted from) a
\* pointer it wraps modulo 2^SizeBits, which moves the pointer by 8n bytes
\* for negative n too.
IterInc(x) == x + kTokenByteLength                \* operator++
IterDec(x) == x - kTokenByteLength                \* operator--
\* (mutant) operator+ without the record stride: n bytes, not n records.
IterPlusBytes(x, n) == x + n

IterPlus(x, n) == x + n * kTokenByteLength        \* operator+, operator+=
IterMinus(x, n) == x - n * kTokenByteLength       \* operator-(iterator, n), operator-=

\* (x.ptr_ - y.ptr_) / kTokenByteLength: the ptrdiff_t difference is
\* converted to size_t (the type of kTokenByteLength) before the division,
\* and the quotient back to difference_type.  For d < 0 the unsigned value is
\* 2^SizeBits + d, whose quotient by 8 is 2^(SizeBits - 3) + floor(d / 8).
IterDiff(x, y) ==
    LET d == x - y
    IN  IF d >= 0 THEN d \div kTokenByteLength
        ELSE Pow2(SizeBits - 3) + (d \div kTokenByteLength)

IterEq(x, y) == x = y
IterLess(x, y) == x < y
IterLessEq(x, y) == x <= y

begin == DataAddr
end == DataAddr + Len(token_array_data_)

(***************************************************************************)
(* StringTable: the sorted string array, by index and by binary search.    *)
(***************************************************************************)
NotFound == -1
OutOfRange == <<-1>>       \* the error StringTable.get reports

StringTableCount == Len(string_array_)

StringTableGet(index) ==
    IF index >= 0 /\ index < StringTableCount THEN string_array_[index + 1]
    ELSE OutOfRange

\* Lower bound of s in the table: the first index whose string is not < s.
RECURSIVE StringLowerBound(_, _, _)
StringLowerBound(first, count, s) ==
    IF count <= 0 THEN first
    ELSE LET step == count \div 2
             mid == first + step
         IN  IF StrLess(string_array_[mid + 1], s)
             THEN StringLowerBound(mid + 1, count - (step + 1), s)
             ELSE StringLowerBound(first, step, s)

StringTableFind(s) ==
    LET i == StringLowerBound(0, StringTableCount, s)
    IN  IF i < StringTableCount /\ string_array_[i + 1] = s THEN i ELSE NotFound

(***************************************************************************)
(* PosIndex: binary search over the token array by pos_index.              *)
(***************************************************************************)
\* std::lower_bound(first, first + count, pos_id) over UserPOS::iterator.
RECURSIVE TokenLowerBound(_, _, _)
TokenLowerBound(first, count, pos_id) ==
    IF count <= 0 THEN first
    ELSE LET step == count \div 2
             mid == IterPlus(first, step)
         IN  IF Deref(mid) < pos_id
             THEN TokenLowerBound(IterInc(mid), count - (step + 1), pos_id)
             ELSE TokenLowerBound(first, step, pos_id)

\* std::upper_bound(first, first + count, pos_id) over UserPOS::iterator.
RECURSIVE TokenUpperBound(_, _, _)
TokenUpperBound(first, count, pos_id) ==
    IF count <= 0 THEN first
    ELSE LET step == count \div 2
             mid == IterPlus(first, step)
         IN  IF ~(pos_id < Deref(mid))
             THEN TokenUpperBound(IterInc(mid), count - (step + 1), pos_id)
             ELSE TokenUpperBound(first, step, pos_id)

TokenCount == IterDiff(end, begin)

resolve_id(name) == StringTableFind(name)

\* The two binary searches of record_range: the iterators at the lower and
\* at the upper bound of pos_id.
RangeBegin(pos_id) == TokenLowerBound(begin, TokenCount, pos_id)
RangeEnd(pos_id) == TokenUpperBound(begin, TokenCount, pos_id)

\* The record range [lo, hi) of pos_id, as record numbers from 0.
record_range(pos_id) ==
    [lo |-> IterDiff(RangeBegin(pos_id), begin),
     hi |-> IterDiff(RangeEnd(pos_id), begin)]

\* One scan from begin() to end(): the first pos_index of each run.
RECURSIVE ScanDistinct(_, _)
ScanDistinct(x, acc) ==
    IF ~IterLess(x, end) THEN acc
    ELSE IF acc # <<>> /\ acc[Len(acc)] = Deref(x)
         THEN ScanDistinct(IterInc(x), acc)
         ELSE ScanDistinct(IterInc(x), Append(acc, Deref(x)))

distinct_pos_ids == ScanDistinct(begin, <<>>)

(***************************************************************************)
(* UserPosEngine: the queries.                                             *)
(***************************************************************************)
GetPOSList ==
    LET d == distinct_pos_ids
    IN  [i \in 1..Len(d) |-> StringTableGet(d[i])]

IsValidPOS(name) == resolve_id(name) # NotFound

GetPOSIDs(name) == resolve_id(name)

\* The Token GetTokens makes of the record at iterator x.
MakeToken(key, value, pos_id, x) ==
    [key |-> key \o StringTableGet(key_suffix_index(x)),
     value |-> value \o StringTableGet(value_suffix_index(x)),
     pos_id |-> pos_id,
     conjugation_id |-> conjugation_id(x)]

(***************************************************************************)
(* The data manager's buffers, as gen_user_pos_data.py lays them out.      *)
(***************************************************************************)
Encode16(v) == <<v % 256, v \div 256>>

EncodeToken(t) ==
    Encode16(t.pos) \o Encode16(t.val) \o Encode16(t.key) \o Encode16(t.conj)

RECURSIVE EncodeTokens(_)
EncodeTokens(ts) ==
    IF ts = <<>> THEN <<>> ELSE EncodeToken(Head(ts)) \o EncodeTokens(Tail(ts))

\* The i-th record of an input token array whose pos_index is p: the suffix
\* indices and the conjugation id vary with p and i.
InputRecord(p, i) ==
    [pos |-> p, val |-> (p + i) % 3, key |-> i % 2, conj |-> 250 + 10 * p + i]

\* Bytes left over after the last whole record (a truncated buffer).
TailBytes == {<<>>, <<1, 0, 0, 0>>}

\* The pos_index sequences of the input token arrays, sorted or not.
PosSequences == UNION {[1..k -> 0..MaxStrings] : k \in 0..MaxRecords}

TokenBuffers ==
    {EncodeTokens([i \in 1..Len(ps) |-> InputRecord(ps[i], i)]) \o tl :
        ps \in PosSequences, tl \in TailBytes}

StringTables ==
    {SortStrings(S) : S \in {T \in SUBSET Universe : Cardinality(T) <= MaxStrings}}

Managers == [tokens : TokenBuffers, strings : StringTables]

(***************************************************************************)
(* Construction.                                                           *)
(***************************************************************************)
\* Every index a record embeds points into the string table.
IndicesInRange(bytes, strings) ==
    \A r \in 0..(Len(bytes) \div kTokenByteLength) - 1 :
        \A f \in {0, 2, 4} :
            Field16(bytes, r * kTokenByteLength + f) < Len(strings)

\* (mutant) construction checks the length only.
WellFormedLengthOnly(bytes, strings) == Len(bytes) % kTokenByteLength = 0

WellFormed(bytes, strings) ==
    /\ Len(bytes) % kTokenByteLength = 0
    /\ IndicesInRange(bytes, strings)

NoCall == [pc |-> "idle", key |-> <<>>, value |-> <<>>, pos |-> <<>>,
           old |-> <<>>, pos_id |-> NotFound, cur |-> 0, last |-> 0,
           result |-> FALSE]

NoRet == [op |-> "none", name |-> <<>>, ok |-> FALSE, id |-> NotFound,
          list |-> <<>>, pos_id |-> 0, lo |-> 0, hi |-> 0]

NoIterRet == [op |-> "none", n |-> 0, m |-> 0, x |-> 0, r |-> 0, d |-> 0,
              b |-> 0, lt |-> FALSE, le |-> FALSE, eq |-> FALSE]

Callers == {1, 2}

\* UserPOS::CreateFromDataManager: the engine over the manager's buffers, or
\* a format error and no engine.
CreateFromDataManager ==
    /\ status = "none"
    /\ IF WellFormed(manager.tokens, manager.strings)
       THEN /\ token_array_data_' = manager.tokens
            /\ string_array_' = manager.strings
            /\ status' = "ready"
       ELSE /\ status' = "failed"
            /\ UNCHANGED <<token_array_data_, string_array_>>
    /\ UNCHANGED <<manager, out, call, ret, it, it_ret>>

(***************************************************************************)
(* The queries, as a caller runs them on a ready engine.                   *)
(***************************************************************************)
engine == <<manager, status, token_array_data_, string_array_>>

DoGetPOSList ==
    /\ status = "ready"
    /\ ret' = [NoRet EXCEPT !.op = "GetPOSList", !.ok = TRUE, !.list = GetPOSList]
    /\ UNCHANGED <<engine, out, call, it, it_ret>>

DoIsValidPOS(name) ==
    /\ status = "ready"
    /\ ret' = [NoRet EXCEPT !.op = "IsValidPOS", !.name = name,
                            !.ok = IsValidPOS(name)]
    /\ UNCHANGED <<engine, out, call, it, it_ret>>

DoGetPOSIDs(name) ==
    /\ status = "ready"
    /\ LET id == GetPOSIDs(name)
       IN  ret' = [NoRet EXCEPT !.op = "GetPOSIDs", !.name = name,
                               !.ok = (id # NotFound), !.id = id]
    /\ UNCHANGED <<engine, out, call, it, it_ret>>

DoRecordRange(pos_id) ==
    /\ status = "ready"
    /\ LET r == record_range(pos_id)
       IN  ret' = [NoRet EXCEPT !.op = "record_range", !.ok = TRUE,
                               !.pos_id = pos_id, !.lo = r.lo, !.hi = r.hi]
    /\ UNCHANGED <<engine, out, call, it, it_ret>>

\* (mutant) GetTokens starts by clearing the caller's collection.
GetTokensBeginClears(c, key, value, pos) ==
    /\ status = "ready"
    /\ call[c].pc # "append"
    /\ Len(out[c]) <= MaxOut
    /\ out' = [out EXCEPT ![c] = <<>>]
    /\ \E id \in {resolve_id(pos)} :
         IF id = NotFound
         THEN call' = [call EXCEPT ![c] =
                  [pc |-> "done", key |-> key, value |-> value, pos |-> pos,
                   old |-> out[c], pos_id |-> id, cur |-> 0, last |-> 0,
                   result |-> FALSE]]
         ELSE \E r \in {record_range(id)} :
                call' = [call EXCEPT ![c] =
                  [pc |-> IF r.lo = r.hi THEN "done" ELSE "append",
                   key |-> key, value |-> value, pos |-> pos,
                   old |-> out[c], pos_id |-> id,
                   cur |-> IterPlus(begin, r.lo), last |-> IterPlus(begin, r.hi),
                   result |-> TRUE]]
    /\ UNCHANGED <<engine, ret, it, it_ret>>

\* GetTokens(key, value, pos, &out[c]), up to its loop over the record range:
\* an unknown pos ends the call at once.
GetTokensBegin(c, key, value, pos) ==
    /\ status = "ready"
    /\ call[c].pc # "append"
    /\ Len(out[c]) <= MaxOut
    /\ \E id \in {resolve_id(pos)} :
         IF id = NotFound
         THEN call' = [call EXCEPT ![c] =
                  [pc |-> "done", key |-> key, value |-> value, pos |-> pos,
                   old |-> out[c], pos_id |-> id, cur |-> 0, last |-> 0,
                   result |-> FALSE]]
         ELSE \E r \in {record_range(id)} :
                call' = [call EXCEPT ![c] =
                  [pc |-> IF r.lo = r.hi THEN "done" ELSE "append",
                   key |-> key, value |-> value, pos |-> pos,
                   old |-> out[c], pos_id |-> id,
                   cur |-> IterPlus(begin, r.lo), last |-> IterPlus(begin, r.hi),
                   result |-> TRUE]]
    /\ UNCHANGED <<engine, out, ret, it, it_ret>>

\* (mutant) the loop appends through one buffer all callers share.
GetTokensStepShared(c) ==
    /\ status = "ready"
    /\ call[c].pc = "append"
    /\ LET k == call[c]
           next == IterInc(k.cur)
       IN  /\ out' = [d \in Callers |->
                       Append(out[d], MakeToken(k.key, k.value, k.pos_id, k.cur))]
           /\ call' = [call EXCEPT ![c].cur = next,
                                   ![c].pc = IF IterEq(next, k.last) THEN "done"
                                             ELSE "append"]
    /\ UNCHANGED <<engine, ret, it, it_ret>>

\* One turn of the loop: the token of the record at the cursor is appended.
GetTokensStep(c) ==
    /\ status = "ready"
    /\ call[c].pc = "append"
    /\ LET k == call[c]
           next == IterInc(k.cur)
       IN  /\ out' = [out EXCEPT ![c] =
                       Append(@, MakeToken(k.key, k.value, k.pos_id, k.cur))]
           /\ call' = [call EXCEPT ![c].cur = next,
                                   ![c].pc = IF IterEq(next, k.last) THEN "done"
                                             ELSE "append"]
    /\ UNCHANGED <<engine, ret, it, it_ret>>

\* The stems and the POS names the callers ask with.
Keys == {<<1>>, <<2, 2>>}
Values == {<<2>>}

InitEngine ==
    /\ manager \in Managers
    /\ status = "none"
    /\ token_array_data_ = <<>>
    /\ string_array_ = <<>>
    /\ out = [c \in Callers |-> <<>>]
    /\ call = [c \in Callers |-> NoCall]
    /\ ret = NoRet
    /\ it = 0
    /\ it_ret = NoIterRet

Init == InitEngine

Next ==
    \/ CreateFromDataManager
    \/ DoGetPOSList
    \/ \E name \in Universe : DoIsValidPOS(name)
    \/ \E name \in Universe : DoGetPOSIDs(name)
    \/ \E pos_id \in 0..MaxStrings : DoRecordRange(pos_id)

Spec == Init /\ [][Next]_vars

\* One caller expanding stems into one output collection.
NextTokens ==
    \/ CreateFromDataManager
    \/ \E key \in Keys, value \in Values, pos \in Universe :
           GetTokensBegin(1, key, value, pos)
    \/ GetTokensStep(1)

SpecTokens == Init /\ [][NextTokens]_vars

(***************************************************************************)
(* Several readers on one engine.  The engine is the one of the worked     *)
(* example: strings "", "a", "ab", "b", "ba" stand for "", "Noun", "Verb", *)
(* "ed", "s".                                                              *)
(***************************************************************************)
ScenarioStrings == SortStrings(Universe)

ScenarioTokens ==
    EncodeTokens(<<[pos |-> 1, val |-> 0, key |-> 0, conj |-> 10],
                   [pos |-> 1, val |-> 4, key |-> 4, conj |-> 11],
                   [pos |-> 2, val |-> 3, key |-> 3, conj |-> 20]>>)

InitReaders ==
    /\ manager = [tokens |-> ScenarioTokens, strings |-> ScenarioStrings]
    /\ status = "none"
    /\ token_array_data_ = <<>>
    /\ string_array_ = <<>>
    /\ out = [c \in Callers |-> <<>>]
    /\ call = [c \in Callers |-> NoCall]
    /\ ret = NoRet
    /\ it = 0
    /\ it_ret = NoIterRet

\* What the readers ask with: "Noun", "Verb", and "Adj", which is no string
\* of the table.
ReaderNames == {<<1>>, <<1, 2>>, <<2, 2>>}
ReaderKeys == {<<1>>}

NextReaders ==
    \/ CreateFromDataManager
    \/ DoGetPOSList
    \/ \E name \in ReaderNames : DoIsValidPOS(name)
    \/ \E name \in ReaderNames : DoGetPOSIDs(name)
    \/ \E c \in Callers, key \in ReaderKeys, value \in Values, pos \in ReaderNames :
           GetTokensBegin(c, key, value, pos)
    \/ \E c \in Callers : GetTokensStep(c)

SpecReaders == InitReaders /\ [][NextReaders]_vars

(***************************************************************************)
(* The iterator on its own: a view over a raw buffer of any length.        *)
(***************************************************************************)
RECURSIVE IterIncTimes(_, _)
IterIncTimes(x, n) == IF n = 0 THEN x ELSE IterIncTimes(IterInc(x), n - 1)

\* The iterator under test stays within MaxSteps records of begin().
InWindow(x) ==
    /\ x >= IterMinus(begin, MaxSteps)
    /\ x <= IterPlus(begin, MaxSteps)

Steps == (0 - MaxSteps)..MaxSteps

\* ++x and x++ (which returns the iterator before the move).
IterPreInc ==
    /\ InWindow(IterInc(it))
    /\ it' = IterInc(it)
    /\ it_ret' = [NoIterRet EXCEPT !.op = "++x", !.x = it, !.r = IterInc(it)]
    /\ UNCHANGED <<engine, out, call, ret>>

IterPostInc ==
    /\ InWindow(IterInc(it))
    /\ it' = IterInc(it)
    /\ it_ret' = [NoIterRet EXCEPT !.op = "x++", !.x = it, !.r = it]
    /\ UNCHANGED <<engine, out, call, ret>>

\* --x and x--.
IterPreDec ==
    /\ InWindow(IterDec(it))
    /\ it' = IterDec(it)
    /\ it_ret' = [NoIterRet EXCEPT !.op = "--x", !.x = it, !.r = IterDec(it)]
    /\ UNCHANGED <<engine, out, call, ret>>

IterPostDec ==
    /\ InWindow(IterDec(it))
    /\ it' = IterDec(it)
    /\ it_ret' = [NoIterRet EXCEPT !.op = "x--", !.x = it, !.r = it]
    /\ UNCHANGED <<engine, out, call, ret>>

\* x += n and x -= n.
IterPlusAssign(n) ==
    /\ InWindow(IterPlus(it, n))
    /\ it' = IterPlus(it, n)
    /\ it_ret' = [NoIterRet EXCEPT !.op = "x+=n", !.n = n, !.x = it,
                                   !.r = IterPlus(it, n)]
    /\ UNCHANGED <<engine, out, call, ret>>

IterMinusAssign(n) ==
    /\ InWindow(IterMinus(it, n))
    /\ it' = IterMinus(it, n)
    /\ it_ret' = [NoIterRet EXCEPT !.op = "x-=n", !.n = n, !.x = it,
                                   !.r = IterMinus(it, n)]
    /\ UNCHANGED <<engine, out, call, ret>>

\* r = x + n, then d = r - x and b = r - n.
IterArith(n) ==
    /\ LET r == IterPlus(it, n)
       IN  it_ret' = [NoIterRet EXCEPT !.op = "x+n", !.n = n, !.x = it, !.r = r,
                                      !.d = IterDiff(r, it), !.b = IterMinus(r, n)]
    /\ UNCHANGED <<engine, out, call, ret, it>>

\* r = x after n times ++, d = r - x, and b = --(++x).
IterWalk(n) ==
    /\ LET r == IterIncTimes(it, n)
       IN  it_ret' = [NoIterRet EXCEPT !.op = "walk", !.n = n, !.x = it, !.r = r,
                                      !.d = IterDiff(r, it),
                                      !.b = IterDec(IterInc(it))]
    /\ UNCHANGED <<engine, out, call, ret, it>>

\* x + n compared with x + m.
IterCompare(n, m) ==
    /\ LET a == IterPlus(it, n)
           b == IterPlus(it, m)
       IN  it_ret' = [NoIterRet EXCEPT !.op = "compare", !.n = n, !.m = m, !.x = it,
                                      !.lt = IterLess(a, b), !.le = IterLessEq(a, b),
                                      !.eq = IterEq(a, b)]
    /\ UNCHANGED <<engine, out, call, ret, it>>

\* d = end() - begin(), r = begin() + d, b = begin() after d times ++.
IterBounds ==
    /\ LET d == IterDiff(end, begin)
       IN  it_ret' = [NoIterRet EXCEPT !.op = "bounds", !.x = begin, !.d = d,
                                      !.r = IterPlus(begin, d),
                                      !.b = IterIncTimes(begin, d),
                                      !.eq = IterEq(IterPlus(begin, d), end)]
    /\ UNCHANGED <<engine, out, call, ret, it>>

\* Raw buffers of every length up to MaxRecords records and a part of one.
RawBuffers ==
    {[i \in 1..n |-> 0] : n \in 0..(MaxRecords * kTokenByteLength + 7)}

InitIter ==
    /\ token_array_data_ \in RawBuffers
    /\ manager = [tokens |-> token_array_data_, strings |-> <<>>]
    /\ status = "none"
    /\ string_array_ = <<>>
    /\ out = [c \in Callers |-> <<>>]
    /\ call = [c \in Callers |-> NoCall]
    /\ ret = NoRet
    /\ it = begin
    /\ it_ret = NoIterRet

NextIter ==
    \/ IterPreInc
    \/ IterPostInc
    \/ IterPreDec
    \/ IterPostDec
    \/ \E n \in Steps : IterPlusAssign(n)
    \/ \E n \in Steps : IterMinusAssign(n)
    \/ \E n \in Steps : IterArith(n)
    \/ \E n \in 0..MaxSteps : IterWalk(n)
    \/ \E n \in Steps, m \in Steps : IterCompare(n, m)
    \/ IterBounds

SpecIter == InitIter /\ [][NextIter]_vars

(***************************************************************************)
(* What the claims speak of, read off the buffers directly.                *)
(***************************************************************************)
NumRecords == Len(token_array_data_) \div 8

\* The record number i (from 0) of the engine's token array.
RecordAt(i) ==
    [pos |-> Field16(token_array_data_, 8 * i),
     val |-> Field16(token_array_data_, 8 * i + 2),
     key |-> Field16(token_array_data_, 8 * i + 4),
     conj |-> Field16(token_array_data_, 8 * i + 6)]

SortedByPos ==
    \A i \in 0..NumRecords - 1 : \A j \in i..NumRecords - 1 :
        RecordAt(i).pos <= RecordAt(j).pos

LinearScan(pos_id) == {i \in 0..NumRecords - 1 : RecordAt(i).pos = pos_id}

InTable(name) == \E k \in 1..Len(string_array_) : string_array_[k] = name

\* The string-table index of a name of the table.
TableIndex(name) ==
    (CHOOSE k \in 1..Len(string_array_) : string_array_[k] = name) - 1

SeqElems(q) == {q[i] : i \in 1..Len(q)}

\* The pos_index that heads each run of equal pos_index values, in storage
\* order, up to record i.
RECURSIVE RunHeadsUpTo(_)
RunHeadsUpTo(i) ==
    IF i = 0 THEN <<>>
    ELSE IF i > 1 /\ RecordAt(i - 2).pos = RecordAt(i - 1).pos
         THEN RunHeadsUpTo(i - 1)
         ELSE Append(RunHeadsUpTo(i - 1), RecordAt(i - 1).pos)

RunHeads == RunHeadsUpTo(NumRecords)

\* The tokens GetTokens(key, value, pos) owes for a pos of the table: one per
\* record of the record range of its id, in storage order.
OwedTokens(key, value, pos) ==
    LET p == TableIndex(pos)
        r == record_range(p)
    IN  [i \in 1..(r.hi - r.lo) |->
            LET tok == RecordAt(r.lo + i - 1)
            IN  [key |-> key \o string_array_[tok.key + 1],
                 value |-> value \o string_array_[tok.val + 1],
                 pos_id |-> p,
                 conjugation_id |-> tok.conj]]

\* The manager's token buffer holds a pos_index greater than its successor's.
InputUnsorted ==
    \E i \in 0..(Len(manager.tokens) \div 8) - 2 :
        Field16(manager.tokens, 8 * i) > Field16(manager.tokens, 8 * (i + 1))

InputBadLength == Len(manager.tokens) % 8 # 0

InputBadIndex ==
    \E i \in 0..(Len(manager.tokens) \div 8) - 1 : \E f \in {0, 2, 4} :
        Field16(manager.tokens, 8 * i + f) >= Len(manager.strings)

(***************************************************************************)
(* C1: GetTokens with a POS name that resolves to no id returns false and  *)
(* leaves the output collection as it was before the call.                 *)
(***************************************************************************)
ThmC1 ==
    \A c \in Callers :
        (call[c].pc = "done" /\ ~InTable(call[c].pos)) =>
            /\ call[c].result = FALSE
            /\ out[c] = call[c].old

\* An unknown POS asked with an output collection that already holds tokens.
WitC1 ==
    /\ call[1].pc = "done"
    /\ ~InTable(call[1].pos)
    /\ call[1].old # <<>>

(***************************************************************************)
(* C2: GetTokens with a POS name that resolves to id p leaves the output   *)
(* collection equal to its prior content followed by one token per record  *)
(* of the record range of p, in storage order, each token {key + key       *)
(* suffix, value + value suffix, p, the record's conjugation id}; the      *)
(* prior content is never cleared or reordered, every produced key/value   *)
(* starts with the input key/value, and equals it for an empty suffix.     *)
(***************************************************************************)
ThmC2 ==
    \A c \in Callers :
        LET k == call[c]
        IN  (k.pc # "idle" /\ InTable(k.pos)) =>
              \A owed \in {OwedTokens(k.key, k.value, k.pos)} :
              \A new \in {SubSeq(out[c], Len(k.old) + 1, Len(out[c]))} :
              \A lo \in {record_range(TableIndex(k.pos)).lo} :
                /\ SubSeq(out[c], 1, Len(k.old)) = k.old
                /\ Len(out[c]) >= Len(k.old)
                /\ k.pc = "done" =>
                      /\ k.result = TRUE
                      /\ out[c] = k.old \o owed
                /\ k.pc = "append" =>
                      /\ Len(new) < Len(owed)
                      /\ new = SubSeq(owed, 1, Len(new))
                /\ \A i \in 1..Len(new) :
                      LET tok == RecordAt(lo + i - 1)
                      IN  /\ IsPrefix(k.key, new[i].key)
                          /\ IsPrefix(k.value, new[i].value)
                          /\ string_array_[tok.key + 1] = <<>> => new[i].key = k.key
                          /\ string_array_[tok.val + 1] = <<>> => new[i].value = k.value

\* A second call that appended two tokens, one with an empty and one with a
\* non-empty key suffix, after the tokens of an earlier call.
WitC2 ==
    /\ call[1].pc = "done"
    /\ InTable(call[1].pos)
    /\ call[1].old # <<>>
    /\ Len(out[1]) >= Len(call[1].old) + 2
    /\ \E i, j \in Len(call[1].old) + 1..Len(out[1]) :
          /\ out[1][i].key = call[1].key
          /\ out[1][j].key # call[1].key
          /\ out[1][j].value # call[1].value

(***************************************************************************)
(* C3: on a token array whose pos_index sequence is non-decreasing, the    *)
(* range [lo, hi) of record_range holds exactly the records whose          *)
(* pos_index is the id asked for (a linear scan's result); it is empty,    *)
(* lo = hi, when no record has the id.                                     *)
(***************************************************************************)
ThmC3 ==
    (ret.op = "record_range" /\ SortedByPos) =>
        /\ ret.lo <= ret.hi
        /\ ret.hi <= NumRecords
        /\ {i \in 0..NumRecords - 1 : ret.lo <= i /\ i < ret.hi} = LinearScan(ret.pos_id)
        /\ LinearScan(ret.pos_id) = {} => ret.lo = ret.hi

\* A range of two records that starts after the first record.
WitC3 ==
    /\ ret.op = "record_range"
    /\ SortedByPos
    /\ ret.lo > 0
    /\ ret.hi = ret.lo + 2

(***************************************************************************)
(* C4: IsValidPOS(name) is true if name is an element of GetPOSList() and  *)
(* false if it is not, also for a name the string table holds only as a    *)
(* key or value suffix.                                                    *)
(***************************************************************************)
ClaimC4 ==
    ret.op = "IsValidPOS" => (ret.ok <=> ret.name \in SeqElems(GetPOSList))

(***************************************************************************)
(* C5: round trip: for every position i of GetPOSList(), GetPOSIDs of the  *)
(* i-th name succeeds with the i-th element of distinct_pos_ids(), and     *)
(* StringTable.get of that id is the i-th name.                            *)
(***************************************************************************)
ThmC5 ==
    ret.op = "GetPOSIDs" =>
        \A i \in 1..Len(GetPOSList) :
            GetPOSList[i] = ret.name =>
                /\ ret.ok
                /\ ret.id = distinct_pos_ids[i]
                /\ ret.id = RunHeads[i]
                /\ StringTableGet(ret.id) = ret.name

\* GetPOSIDs of the second name of a list of two or more names.
WitC5 ==
    /\ ret.op = "GetPOSIDs"
    /\ Len(GetPOSList) >= 2
    /\ GetPOSList[2] = ret.name
    /\ ret.id > 0

(***************************************************************************)
(* C6: on a token array sorted by pos_index, every name of GetPOSList()    *)
(* has a token record whose pos_index is the name's string-table index,    *)
(* the names are in strictly ascending id order, none occurs twice, and    *)
(* the list is as long as the token array has distinct pos_index values.   *)
(***************************************************************************)
ThmC6 ==
    (ret.op = "GetPOSList" /\ SortedByPos) =>
        /\ \A i \in 1..Len(ret.list) :
              /\ InTable(ret.list[i])
              /\ LinearScan(TableIndex(ret.list[i])) # {}
        /\ \A i \in 1..Len(ret.list) : \A j \in i + 1..Len(ret.list) :
              /\ ret.list[i] # ret.list[j]
              /\ TableIndex(ret.list[i]) < TableIndex(ret.list[j])
        /\ Len(ret.list) = Cardinality({RecordAt(i).pos : i \in 0..NumRecords - 1})

\* A list of two names from three records, two of them of one POS.
WitC6 ==
    /\ ret.op = "GetPOSList"
    /\ SortedByPos
    /\ NumRecords = 3
    /\ Len(ret.list) = 2

ClaimC8 ==
    status # "none" =>
        /\ InputUnsorted => status = "failed"
        /\ (~InputUnsorted /\ ~InputBadLength /\ ~InputBadIndex) => status = "ready"

\* Every finished query returned what it returns on the engine when run alone.
AloneResults ==
    /\ \A c \in Callers :
          call[c].pc = "done" =>
              /\ call[c].result = InTable(call[c].pos)
              /\ out[c] = call[c].old \o
                    (IF InTable(call[c].pos)
                     THEN OwedTokens(call[c].key, call[c].value, call[c].pos)
                     ELSE <<>>)
    /\ ret.op = "IsValidPOS" => ret.ok = InTable(ret.name)
    /\ ret.op = "GetPOSIDs" =>
          /\ ret.ok = InTable(ret.name)
          /\ ret.ok => ret.id = TableIndex(ret.name)
    /\ ret.op = "GetPOSList" =>
          ret.list = [i \in 1..Len(distinct_pos_ids) |->
                         string_array_[distinct_pos_ids[i] + 1]]

\* A step leaves a ready engine as it is, and changes the output collection
\* of the one caller whose GetTokens loop took the step, and nothing of the
\* other callers.
ReadersApart ==
    /\ status = "ready" => UNCHANGED <<manager, status, token_array_data_, string_array_>>
    /\ \A c \in Callers :
          out'[c] # out[c] =>
              /\ call[c].pc = "append"
              /\ \A c2 \in Callers \ {c} : out'[c2] = out[c2] /\ call'[c2] = call[c2]

(***************************************************************************)
(* C9: after construction no query changes the engine's token array or     *)
(* string table; under any interleaving of the readers' queries each query *)
(* returns what it returns when run alone, and the only state a query      *)
(* changes is its own caller's output collection.                          *)
(***************************************************************************)
ThmC9 == [](AloneResults) /\ [][ReadersApart]_vars

\* Both readers are in the middle of a GetTokens call, each with a token
\* appended and one still to append.
WitC9 ==
    /\ call[1].pc = "append"
    /\ call[2].pc = "append"
    /\ Len(out[1]) > Len(call[1].old)
    /\ Len(out[2]) > Len(call[2].old)

(***************************************************************************)
(* C10: iterator arithmetic is in whole records of 8 bytes: for every      *)
(* iterator x and integers n, (x + n) - x = n and (x + n) - n = x; ++      *)
(* applied n times yields x + n and -- undoes ++; x + i compares with      *)
(* x + j as i with j; for a buffer of length L, end() - begin() = L / 8,   *)
(* and begin() + L / 8 = end() if and only if L is a multiple of 8.        *)
(***************************************************************************)
ClaimC10 ==
    LET r == it_ret
        L == Len(token_array_data_)
    IN  /\ r.op = "x+n" => r.d = r.n /\ r.b = r.x
        /\ r.op = "walk" => r.r = IterPlus(r.x, r.n) /\ r.d = r.n /\ r.b = r.x
        /\ r.op = "compare" =>
              /\ r.lt <=> r.n < r.m
              /\ r.le <=> r.n <= r.m
              /\ r.eq <=> r.n = r.m
        /\ r.op = "bounds" =>
              /\ r.d = L \div 8
              /\ r.eq <=> L % 8 = 0
              /\ (r.b = end) <=> L % 8 = 0

\* The same with (x + n) - x = n asked for n >= 0 only.
ForwardC10 ==
    LET r == it_ret
        L == Len(token_array_data_)
    IN  /\ r.op = "x+n" => (r.n >= 0 => r.d = r.n) /\ r.b = r.x
        /\ r.op = "walk" => r.r = IterPlus(r.x, r.n) /\ r.d = r.n /\ r.b = r.x
        /\ r.op = "compare" =>
              /\ r.lt <=> r.n < r.m
              /\ r.le <=> r.n <= r.m
              /\ r.eq <=> r.n = r.m
        /\ r.op = "bounds" =>
              /\ r.d = L \div 8
              /\ r.eq <=> L % 8 = 0
              /\ (r.b = end) <=> L % 8 = 0

====
